---- MODULE Spec2Model ----
(***************************************************************************)
(* StorageDevice (src/src/applib/storage_device.cpp): the per-device       *)
(* fetch -> classify -> parse -> cache pipeline of gsmartcontrol.          *)
(*                                                                         *)
(* One device is modelled.  Every public operation is one action; the     *)
(* command executor and the output parsers are external collaborators,    *)
(* so an executor response is an input drawn from a bounded set and a     *)
(* parser's verdict on an output is carried by the output itself.         *)
(* The variables op, result, exec_log, signals and retries record what    *)
(* the last operation did (its return value, the executor responses it    *)
(* consumed, the change notifications it emitted, the ambiguous-type       *)
(* retries it made), arg the flag a setter was called with, seen the       *)
(* device as the listeners of each notification found it, and status_trace *)
(* the values written to parse_status_ in the order of the writes.         *)
(* Where calls of several tasks interleave, tasks holds each task's        *)
(* position in its call and the locals of that call.                       *)
(***************************************************************************)
EXTENDS Integers, Sequences, FiniteSets, TLC

VARIABLES dev, env, op, result, exec_log, signals, retries, arg, seen,
          status_trace, tasks

vars == <<dev, env, op, result, exec_log, signals, retries, arg, seen,
          status_trace, tasks>>

(***************************************************************************)
(* Bounds of the model.                                                    *)
(***************************************************************************)
\* Most lines of a response text drawn for the SMART toggle.
MaxLines == 2
\* Nested fetch_basic_data_and_parse calls the model follows before it
\* reports "Diverged" instead of recursing further.
MaxRecursion == 3

(***************************************************************************)
(* Strings are sequences of characters where the code looks inside them.   *)
(***************************************************************************)
DevSda == <<"/", "d", "e", "v", "/", "s", "d", "a">>
DevSr0 == <<"/", "d", "e", "v", "/", "s", "r", "0">>
Devices == {DevSda, DevSr0}

\* std::string::rfind(ch): the last index holding ch, 0 for npos.
RECURSIVE rfind(_, _, _)
rfind(s, ch, i) ==
    IF i = 0 THEN 0
    ELSE IF s[i] = ch THEN i ELSE rfind(s, ch, i - 1)

starts_with(s, prefix) ==
    /\ Len(s) >= Len(prefix)
    /\ SubSeq(s, 1, Len(prefix)) = prefix

(***************************************************************************)
(* Enumerations.                                                           *)
(***************************************************************************)
DetectedTypes ==
    {"Unknown", "NeedsExplicitType", "AtaAny", "AtaHdd", "AtaSsd", "Nvme",
     "BasicScsi", "CdDvd", "UnsupportedRaid"}

TransientTypes == {"Unknown", "NeedsExplicitType"}

TerminalTypes == DetectedTypes \ TransientTypes

ParseStatuses == {"None", "Basic", "Full"}

\* std::optional<bool>: no value, true, false.
Tri == {"none", "true", "false"}

\* Absent rotation_rate property.
NoRotation == -1

(***************************************************************************)
(* The property repository (Fact Store), reduced to the properties the     *)
(* device looks up.  "none" is an absent property.                         *)
(***************************************************************************)
EmptyRepo ==
    [smart_supported |-> "none", smart_enabled |-> "none",
     health |-> "none",
     model_name |-> "none", scsi_model_name |-> "none",
     model_family |-> "none", scsi_vendor |-> "none",
     serial_number |-> "none",
     size_short |-> "none", size_bytes |-> "none",
     text_type |-> "none", device_type |-> "none", protocol |-> "none",
     rotation_rate |-> NoRotation,
     selftest_log |-> FALSE]

\* An ATA disk as the text dialect reports it.
BaseFacts ==
    [EmptyRepo EXCEPT !.smart_supported = "true", !.smart_enabled = "true",
                      !.health = "passed", !.model_name = "M1",
                      !.serial_number = "S1", !.size_short = "1TB",
                      !.size_bytes = "10^12",
                      !.text_type = "AtaAny", !.rotation_rate = 7200,
                      !.selftest_log = TRUE]

\* The nine SMART supported/enabled combinations.
SmartFacts ==
    {[BaseFacts EXCEPT !.smart_supported = s, !.smart_enabled = e] :
        s \in Tri, e \in Tri}

\* The same disk failing its health check, under another serial number.
FailingFacts == [BaseFacts EXCEPT !.health = "failed", !.serial_number = "S2"]

\* An ATA SSD as the JSON dialect reports it: no rotation rate.
SsdJsonFacts ==
    [BaseFacts EXCEPT !.text_type = "none", !.device_type = "sat",
                      !.protocol = "ATA", !.rotation_rate = NoRotation]

\* An NVMe drive behind a USB bridge, JSON dialect.
NvmeJsonFacts ==
    [BaseFacts EXCEPT !.text_type = "none", !.device_type = "sntrealtek",
                      !.protocol = "NVMe", !.rotation_rate = NoRotation,
                      !.smart_supported = "none", !.smart_enabled = "none"]

\* A SCSI or optical device, JSON dialect: identity under the alias keys,
\* no serial number, no health verdict, no self-test log.
ScsiJsonFacts ==
    [EmptyRepo EXCEPT !.device_type = "scsi", !.protocol = "SCSI",
                      !.scsi_model_name = "M2", !.scsi_vendor = "V2",
                      !.size_bytes = "2*10^12",
                      !.smart_supported = "false"]

\* A USB flash drive, text dialect: nothing but an unusable header.
FlashFacts == [EmptyRepo EXCEPT !.smart_supported = "false",
                                !.smart_enabled = "false"]

\* The ATA disk without any self-test log property.
NoLogFacts == [BaseFacts EXCEPT !.selftest_log = FALSE]

\* Identity data without any drive-type fact.
UntypedFacts == [BaseFacts EXCEPT !.text_type = "none"]

(***************************************************************************)
(* Captured output.  Its text is a sequence of lines; a line is reduced to *)
(* the recognised phrase it holds (case-folded: every pattern carries the  *)
(* i flag) and to whether that phrase is preceded by other text on the     *)
(* line.  What the external parsers make of an output travels with it:     *)
(* format (detect_output_format), basic_ok (the Basic parser accepts it),  *)
(* family (the family-specific parser that accepts it) and facts (the      *)
(* properties parsed).                                                     *)
(***************************************************************************)
PhraseEnabled == "SMART Enabled"
PhraseDisabled == "SMART Disabled"
PhraseFailed == "A mandatory SMART command failed"
PhraseType == "specify device type with the -d option"
PhraseOther == "other"

DiagLine == [lead |-> TRUE, phrase |-> PhraseType]

\* The empty string.
NoOutput ==
    [text |-> <<>>, format |-> "none", basic_ok |-> FALSE,
     family |-> "none", facts |-> EmptyRepo]

\* Output that only carries the "specify device type" diagnostic.
DiagOutput == [NoOutput EXCEPT !.text = <<DiagLine>>]

FormatOf(f) == IF f.device_type # "none" /\ f.text_type = "none" THEN "Json" ELSE "Text"

FamilyOf(f) ==
    IF \/ f.text_type \in {"AtaAny", "AtaHdd", "AtaSsd"}
       \/ f.device_type = "sat"
       \/ f.protocol = "ATA"
    THEN "Ata"
    ELSE IF "Nvme" \in {f.text_type} \/ f.device_type = "nvme" \/ f.protocol = "NVMe"
         THEN "Nvme"
         ELSE "none"

\* Parsable smartctl output carrying the facts f.
DataOutput(f) ==
    [text |-> <<>>, format |-> FormatOf(f), basic_ok |-> TRUE,
     family |-> FamilyOf(f), facts |-> f]

\* The diagnostic next to usable identity data.
DiagDataOutput == [DataOutput(UntypedFacts) EXCEPT !.text = <<DiagLine>>]

\* Output the Basic parser accepts and the family parser rejects.
BasicOnlyOutput == [DataOutput(BaseFacts) EXCEPT !.family = "none"]

\* Output whose format detection fails.
UndetectedOutput == [DataOutput(BaseFacts) EXCEPT !.format = "none"]

FetchOutputs ==
    {NoOutput, DiagOutput, DiagDataOutput, BasicOnlyOutput}
        \cup {DataOutput(f) : f \in {BaseFacts, FailingFacts, SsdJsonFacts,
                                     NvmeJsonFacts, ScsiJsonFacts, FlashFacts}}

\* An executor is the set of responses (exit status and output) it may give.
\* Executor of the fetch pipeline.
FetchResponses == [ok : BOOLEAN, out : FetchOutputs]

\* Executor answering with every SMART supported/enabled combination.
SmartResponses ==
    [ok : {TRUE}, out : {DataOutput(f) : f \in SmartFacts}]
        \cup {[ok |-> FALSE, out |-> DiagOutput]}

\* Executor answering for a disk with SMART on or with SMART off.
SwitchResponses ==
    [ok : {TRUE},
     out : {DataOutput(BaseFacts),
            DataOutput([BaseFacts EXCEPT !.smart_enabled = "false"])}]

\* Executor of a full fetch answering with and without a self-test log.
SelfTestResponses ==
    [ok : {TRUE}, out : {DataOutput(BaseFacts), DataOutput(NoLogFacts)}]

\* Executor of a command the self-test code issues directly.
DirectResponses ==
    {[ok |-> TRUE, out |-> NoOutput], [ok |-> FALSE, out |-> DiagOutput]}

LineEnabled == [lead |-> FALSE, phrase |-> PhraseEnabled]
LineDisabled == [lead |-> FALSE, phrase |-> PhraseDisabled]
LineFailed == [lead |-> FALSE, phrase |-> PhraseFailed]

\* Lines a toggle response is made of: each phrase at the line start, the
\* phrases inside a sentence, and an unrelated line.
ToggleLines ==
    {LineEnabled, LineDisabled, LineFailed,
     [lead |-> TRUE, phrase |-> PhraseEnabled],
     [lead |-> TRUE, phrase |-> PhraseFailed],
     [lead |-> FALSE, phrase |-> PhraseOther]}

TextOf(lines) == [NoOutput EXCEPT !.text = lines]

ToggleOutputs ==
    {TextOf(l) : l \in UNION {[1..n -> ToggleLines] : n \in 0..MaxLines}}

\* Executor of the SMART toggle: every text on a clean exit, and a failure.
ToggleResponses ==
    [ok : {TRUE}, out : ToggleOutputs]
        \cup {[ok |-> FALSE, out |-> TextOf(<<LineEnabled>>)],
              [ok |-> FALSE, out |-> DiagOutput]}

\* The same, with a handful of texts.
FewToggleResponses ==
    [ok : {TRUE},
     out : {TextOf(<<>>), TextOf(<<LineEnabled>>), TextOf(<<LineFailed>>)}]
        \cup {[ok |-> FALSE, out |-> DiagOutput]}

\* app_regex_partial_match with the m and i flags: pattern.anchored is the
\* leading ^ (the phrase starts a line), otherwise it may sit anywhere.
app_regex_partial_match(pattern, text) ==
    \E i \in 1..Len(text) :
        /\ text[i].phrase = pattern.phrase
        /\ pattern.anchored => ~text[i].lead

PatEnabled == [anchored |-> TRUE, phrase |-> PhraseEnabled]
PatDisabled == [anchored |-> TRUE, phrase |-> PhraseDisabled]
PatFailed == [anchored |-> TRUE, phrase |-> PhraseFailed]
PatType == [anchored |-> FALSE, phrase |-> PhraseType]

(***************************************************************************)
(* External collaborators: parser selection and the parsers.               *)
(***************************************************************************)
ParserTypes == {"Basic", "Ata", "Nvme"}

Formats == {"Text", "Json"}

\* SmartctlVersionParser::get_default_parser_type
get_default_parser_type(t) ==
    IF t \in {"AtaAny", "AtaHdd", "AtaSsd"} THEN "Ata"
    ELSE IF t = "Nvme" THEN "Nvme" ELSE "Basic"

\* SmartctlVersionParser::get_default_format: fixed by the installed
\* smartctl version, so by the environment.
get_default_format(parser_type) == env.default_format[parser_type]

\* SmartctlParser::detect_output_format: the format, or "none" on failure.
detect_output_format(out) == out.format

\* The properties the Basic parser extracts: no self-test log section.
BasicStore(out) == [out.facts EXCEPT !.selftest_log = FALSE]

\* parser->parse(output) of the parser created for (parser_type, format).
\* Output of undetectable format is text as far as a parser goes.
parse_ok(parser_type, format, out) ==
    /\ format = (IF out.format = "none" THEN "Text" ELSE out.format)
    /\ IF parser_type = "Basic" THEN out.basic_ok ELSE out.family = parser_type

\* parser->get_property_repository() after a successful parse.
parsed_repository(parser_type, out) ==
    IF parser_type = "Basic" THEN BasicStore(out) ELSE out.facts

\* StorageDeviceDetectedTypeExt::get_by_storable_name
get_by_storable_name(name, default) ==
    IF name \in DetectedTypes THEN name ELSE default

\* hz::string_to_lower_copy on the protocol strings smartctl prints.
string_to_lower_copy(str) ==
    CASE str = "ATA" -> "ata"
      [] str = "NVMe" -> "nvme"
      [] str = "SCSI" -> "scsi"
      [] OTHER -> str

\* app_get_device_options: the per-device options of the preferences.
app_get_device_options(device, type_argument) == env.config_options

(***************************************************************************)
(* StorageDevice: simple members.                                          *)
(***************************************************************************)
\* Mutant: the basic output is kept.
MutantClearFullOutputOnly(d) == [d EXCEPT !.full_output = NoOutput]

clear_outputs(d) ==
    [d EXCEPT !.basic_output = NoOutput, !.full_output = NoOutput]

\* Mutant: everything but the parse status is reset.
MutantClearKeepsStatus(d) ==
    [d EXCEPT !.property_repository = EmptyRepo,
              !.smart_supported_ = "none",
              !.smart_enabled_ = "none",
              !.model_name_ = "none",
              !.family_name_ = "none",
              !.size_ = "none",
              !.health_property_ = "none"]

\* Mutant: only the parse status is reset.
MutantClearKeepsStore(d) == [d EXCEPT !.parse_status = "None"]

\* Mutant: clearing the parse results leaves the health cache as it is.
MutantHealthCacheSticky(d) ==
    [d EXCEPT !.parse_status = "None",
              !.property_repository = EmptyRepo,
              !.smart_supported_ = "none",
              !.smart_enabled_ = "none",
              !.model_name_ = "none",
              !.family_name_ = "none",
              !.size_ = "none"]

\* serial_number_ is not reset.
clear_parse_results(d) ==
    [d EXCEPT !.parse_status = "None",
              !.property_repository = EmptyRepo,
              !.smart_supported_ = "none",
              !.smart_enabled_ = "none",
              !.model_name_ = "none",
              !.family_name_ = "none",
              !.size_ = "none",
              !.health_property_ = "none"]

get_device_base(d) ==
    IF d.is_virtual THEN <<>>
    ELSE LET pos == rfind(d.device, "/", Len(d.device))
         IN  IF pos = 0 THEN d.device
             ELSE SubSeq(d.device, pos + 1, Len(d.device))

get_type_argument(d) == d.type_arg

get_extra_arguments(d) == d.extra_args

set_extra_arguments(d, args) == [d EXCEPT !.extra_args = args]

\* Mutant: the options of the preferences come before the caller's.
MutantConfigOptionsFirst(d) ==
    IF d.is_virtual THEN <<>>
    ELSE (IF get_type_argument(d) # "" THEN <<"-d", get_type_argument(d)>>
          ELSE <<>>)
         \o app_get_device_options(d.device, get_type_argument(d))
         \o get_extra_arguments(d)

\* Lowest priority first: the type argument, the extra arguments, the
\* options of the preferences.
get_device_options(d) ==
    IF d.is_virtual THEN <<>>
    ELSE (IF get_type_argument(d) # "" THEN <<"-d", get_type_argument(d)>>
          ELSE <<>>)
         \o get_extra_arguments(d)
         \o app_get_device_options(d.device, get_type_argument(d))

read_common_properties(d) ==
    LET r == d.property_repository
    IN  [d EXCEPT
          !.smart_supported_ =
              IF r.smart_supported # "none" THEN r.smart_supported ELSE @,
          !.smart_enabled_ =
              IF r.smart_enabled # "none" THEN r.smart_enabled ELSE @,
          !.model_name_ =
              IF r.model_name # "none" THEN r.model_name
              ELSE IF r.scsi_model_name # "none" THEN r.scsi_model_name ELSE @,
          !.family_name_ =
              IF r.model_family # "none" THEN r.model_family
              ELSE IF r.scsi_vendor # "none" THEN r.scsi_vendor ELSE @,
          !.serial_number_ =
              IF r.serial_number # "none" THEN r.serial_number ELSE @,
          \* the else-branch tests the primary property again, not prop2
          !.size_ =
              IF r.size_short # "none" THEN r.size_short
              ELSE IF r.size_short # "none" THEN r.size_bytes ELSE @]

\* HDD or SSD by the rotation rate.
AtaByRotation(repo) ==
    IF repo.rotation_rate = NoRotation \/ repo.rotation_rate = 0
    THEN "AtaSsd" ELSE "AtaHdd"

\* Mutant: a drive without a rotation rate is taken for a hard disk.
MutantTextFactNoRotationHdd(d, repo) ==
    IF repo.text_type # "none"
    THEN LET t == get_by_storable_name(repo.text_type, "BasicScsi")
         IN  [d EXCEPT !.detected_type =
                  IF t = "AtaAny"
                  THEN IF repo.rotation_rate = 0 THEN "AtaSsd" ELSE "AtaHdd"
                  ELSE t]
    ELSE d

\* The type by the text parser's fact.
detect_from_text_fact(d, repo) ==
    IF repo.text_type # "none"
    THEN LET t == get_by_storable_name(repo.text_type, "BasicScsi")
         IN  [d EXCEPT !.detected_type =
                  IF t = "AtaAny" THEN AtaByRotation(repo) ELSE t]
    ELSE d

\* Mutant: the protocol is compared as smartctl prints it.
MutantDeviceTypeCaseSensitive(d, repo) ==
    LET protocol == IF repo.protocol # "none" THEN repo.protocol ELSE ""
    IN  IF repo.device_type # "none"
        THEN IF repo.device_type = "scsi"
             THEN [d EXCEPT !.detected_type =
                      IF env.kernel_linux
                         /\ starts_with(get_device_base(d), <<"s", "r">>)
                      THEN "CdDvd" ELSE "BasicScsi"]
             ELSE IF repo.device_type = "sat" \/ protocol = "ata"
             THEN [d EXCEPT !.detected_type = AtaByRotation(repo)]
             ELSE IF repo.device_type = "nvme" \/ protocol = "nvme"
             THEN [d EXCEPT !.detected_type = "Nvme"]
             ELSE d
        ELSE d

\* The type by the JSON parser's fact.
detect_from_device_type(d, repo) ==
    LET lowercase_protocol ==
            IF repo.protocol # "none" THEN string_to_lower_copy(repo.protocol)
            ELSE ""
    IN  IF repo.device_type # "none"
        THEN IF repo.device_type = "scsi"
             THEN [d EXCEPT !.detected_type =
                      IF env.kernel_linux
                         /\ starts_with(get_device_base(d), <<"s", "r">>)
                      THEN "CdDvd" ELSE "BasicScsi"]
             ELSE IF repo.device_type = "sat" \/ lowercase_protocol = "ata"
             THEN [d EXCEPT !.detected_type = AtaByRotation(repo)]
             ELSE IF repo.device_type = "nvme" \/ lowercase_protocol = "nvme"
             THEN [d EXCEPT !.detected_type = "Nvme"]
             ELSE d
        ELSE d

\* fall back to basic scsi parser
fall_back_to_basic_scsi(d) ==
    IF d.detected_type = "Unknown" THEN [d EXCEPT !.detected_type = "BasicScsi"]
    ELSE d

\* Both facts are looked at, the text parser's first.
detect_drive_type_from_properties(d, repo) ==
    fall_back_to_basic_scsi(
        detect_from_device_type(detect_from_text_fact(d, repo), repo))

\* Mutant: an unknown enabled state is reported Unsupported whatever the
\* support.
MutantSmartStatusPessimistic(d) ==
    IF d.smart_enabled_ # "none"
    THEN IF d.smart_enabled_ = "true" THEN "Enabled"
         ELSE IF d.smart_supported_ # "none"
              THEN IF d.smart_supported_ = "true" THEN "Disabled"
                   ELSE "Unsupported"
              ELSE "Disabled"
    ELSE "Unsupported"

get_smart_status(d) ==
    IF d.smart_enabled_ # "none"
    THEN IF d.smart_enabled_ = "true" THEN "Enabled"
         ELSE IF d.smart_supported_ # "none"
              THEN IF d.smart_supported_ = "true" THEN "Disabled"
                   ELSE "Unsupported"
              ELSE "Disabled"
    ELSE IF d.smart_supported_ # "none"
         THEN IF d.smart_supported_ = "true" THEN "Disabled"
              ELSE "Unsupported"
         ELSE "Unsupported"

\* Mutant: a fully parsed device always supports self-tests.
MutantSelfTestIgnoresLog(d) ==
    IF d.parse_status = "Full"
    THEN "Supported"
    ELSE IF d.parse_status = "Basic"
         THEN IF get_smart_status(d) = "Enabled" THEN "Unknown"
              ELSE "Unsupported"
         ELSE "Unknown"

get_self_test_support_status(d) ==
    IF d.parse_status = "Full"
    THEN IF d.property_repository.selftest_log THEN "Supported"
         ELSE "Unsupported"
    ELSE IF d.parse_status = "Basic"
         THEN IF get_smart_status(d) = "Enabled" THEN "Unknown"
              ELSE "Unsupported"
         ELSE "Unknown"

\* property_repository_.lookup_property("smart_status/passed", OverallHealth)
lookup_health(d) == d.property_repository.health

(***************************************************************************)
(* A run is one operation in progress: the device, the value to return,    *)
(* the executor invocations made so far (response and command options),    *)
(* the change notifications emitted and the ambiguous-type retries taken.  *)
(***************************************************************************)
Start(d) ==
    [dev |-> d, result |-> "ok", exec_log |-> <<>>, signals |-> 0,
     retries |-> 0, arg |-> "none", seen |-> <<>>, status_trace |-> <<>>]

Return(run, value) == [run EXCEPT !.result = value]

\* Mutant: the listeners are told twice.
MutantEmitTwice(run) ==
    [run EXCEPT !.signals = @ + 2, !.seen = @ \o <<run.dev, run.dev>>]

\* Mutant: the listeners are not told.
MutantEmitSilent(run) == run

\* signal_changed().emit(this): the listeners run now, on the device as it is.
Emit(run) == [run EXCEPT !.signals = @ + 1, !.seen = Append(@, run.dev)]

\* parse_status_ was written, in this order, with the values it has in ds.
Logged(run, ds) ==
    [run EXCEPT !.status_trace = @ \o [i \in 1..Len(ds) |-> ds[i].parse_status]]

\* Mutant: the diagnostic unsets the type of a classified device too.
MutantTypeCheckAnyType(d, smartctl_output, check_type) ==
    IF /\ check_type
       /\ app_regex_partial_match(PatType, smartctl_output.text)
    THEN [d EXCEPT !.detected_type = "NeedsExplicitType"]
    ELSE d

\* Mutant: the type is checked whether or not the caller asked for it.
MutantAlwaysChecksType(d, smartctl_output, check_type) ==
    IF /\ d.detected_type = "Unknown"
       /\ app_regex_partial_match(PatType, smartctl_output.text)
    THEN [d EXCEPT !.detected_type = "NeedsExplicitType"]
    ELSE d

\* Mutant: a failed execution that is not asked to check the type forgets
\* the type.
MutantTypeForgottenOnFailure(d, smartctl_output, check_type) ==
    IF /\ check_type
       /\ d.detected_type = "Unknown"
       /\ app_regex_partial_match(PatType, smartctl_output.text)
    THEN [d EXCEPT !.detected_type = "NeedsExplicitType"]
    ELSE IF ~check_type THEN [d EXCEPT !.detected_type = "Unknown"]
    ELSE d

\* After a failed execution: an Unknown device whose output asks for a
\* device type becomes NeedsExplicitType, when the caller asked to check.
check_device_type(d, smartctl_output, check_type) ==
    IF /\ check_type
       /\ d.detected_type = "Unknown"
       /\ app_regex_partial_match(PatType, smartctl_output.text)
    THEN [d EXCEPT !.detected_type = "NeedsExplicitType"]
    ELSE d

\* The outcome is the run, the returned status and the caller's output
\* string, which the executor overwrites on success and on failure alike.
execute_device_smartctl(run, command_options, resp, smartctl_output, check_type) ==
    IF run.dev.is_virtual
    THEN [run |-> run, status |-> "CannotExecuteOnVirtual",
          output |-> smartctl_output]
    ELSE LET invoked ==
                 [run EXCEPT !.exec_log =
                     Append(@, [ok |-> resp.ok, out |-> resp.out,
                                options |-> get_device_options(run.dev),
                                detected_type |-> run.dev.detected_type,
                                command |-> command_options])]
         IN  IF ~resp.ok
             THEN [run |-> [invoked EXCEPT
                              !.dev = check_device_type(@, resp.out, check_type)],
                   status |-> "ExecutionError",
                   output |-> resp.out]
             ELSE [run |-> invoked, status |-> "ok", output |-> resp.out]

\* Mutant: a basic parse that succeeded always counts as Basic.
MutantBasicAlways(d) == "Basic"

\* A model field (or its alias) tells whether there was any data.
basic_parse_status(d) == IF d.model_name_ # "none" THEN "Basic" ELSE "None"

parse_basic_data(run) ==
    LET d1 == clear_parse_results(run.dev)
        detect_status == detect_output_format(d1.basic_output)
        output_format == IF detect_status # "none" THEN detect_status ELSE "Text"
    IN  IF ~parse_ok("Basic", output_format, d1.basic_output)
        THEN Return(Logged([run EXCEPT !.dev = d1], <<d1>>), "ParseError")
        ELSE LET basic_property_repo ==
                     parsed_repository("Basic", d1.basic_output)
                 d2 == detect_drive_type_from_properties(d1, basic_property_repo)
                 d3 == [d2 EXCEPT !.property_repository = basic_property_repo]
                 d4 == read_common_properties(d3)
                 d5 == [d4 EXCEPT !.parse_status = basic_parse_status(d4)]
             IN  Return(Emit(Logged([run EXCEPT !.dev = d5], <<d1, d5>>)), "ok")

JsonFlag(format) == IF format = "Json" THEN <<"--json=o">> ELSE <<>>

BasicCommand ==
    <<"--info", "--health", "--capabilities">>
        \o JsonFlag(get_default_format("Basic"))

\* Mutant: the retry does not look at the override.
MutantRetryIgnoresOverride(execute_status, d) ==
    /\ execute_status \in {"ok", "ExecutionError"}
    /\ d.detected_type = "NeedsExplicitType"

\* Mutant: the retry is taken whatever the override, unless it is "scsi".
MutantRetryOnAnyOverride(execute_status, d) ==
    /\ execute_status \in {"ok", "ExecutionError"}
    /\ d.detected_type = "NeedsExplicitType"
    /\ d.type_arg # "scsi"

\* The test of the ambiguous-type retry.
retry_applies(execute_status, d) ==
    /\ execute_status \in {"ok", "ExecutionError"}
    /\ d.detected_type = "NeedsExplicitType"
    /\ d.type_arg = ""

\* Mutant: the retry reclassifies the device and leaves the override unset.
MutantRetryKeepsOverride(d) == [d EXCEPT !.detected_type = "BasicScsi"]

\* Mutant: the retry sets the override and leaves the type.
MutantRetryKeepsType(d) == [d EXCEPT !.type_arg = "scsi"]

\* Mutant: the retry forgets the type and sets no override.
MutantRetryForgetsType(d) == [d EXCEPT !.detected_type = "Unknown"]

\* set_type_argument("scsi"); set_detected_type(BasicScsi)
retry_with_scsi(d) ==
    [d EXCEPT !.type_arg = "scsi", !.detected_type = "BasicScsi"]

\* The set of runs the call can end in, one per course the executor's
\* responses allow.  The execution status is only read by the retry test.
RECURSIVE fetch_basic_data_and_parse(_, _, _)
fetch_basic_data_and_parse(run, smartctl_ex, fuel) ==
    IF run.dev.test_is_active
    THEN {Return(run, "TestRunning")}
    ELSE LET cleared ==
                 LET d1 == clear_parse_results(run.dev)
                 IN  Logged([run EXCEPT !.dev = clear_outputs(d1)], <<d1>>)
         IN  UNION {
               LET ex == execute_device_smartctl(cleared, BasicCommand, resp,
                                                 cleared.dev.basic_output, TRUE)
                   after == [ex.run EXCEPT !.dev.basic_output = ex.output]
               IN  IF retry_applies(ex.status, after.dev)
                   THEN IF fuel = 0
                        THEN {Return(after, "Diverged")}
                        ELSE fetch_basic_data_and_parse(
                                 [after EXCEPT !.dev = retry_with_scsi(@),
                                               !.retries = @ + 1],
                                 smartctl_ex, fuel - 1)
                   ELSE {parse_basic_data(after)}
               : resp \in smartctl_ex}

AtaCommand ==
    <<"--health", "--info", "--get=all", "--capabilities", "--attributes",
      "--format=brief", "--log=xerror,50,error",
      "--log=xselftest,50,selftest", "--log=selective", "--log=directory",
      "--log=scttemp", "--log=scterc", "--log=devstat", "--log=sataphy">>

\* Mutant: the structured-output modifier goes by the basic parser's format.
MutantFullCommandBasicFormat(detected_type) ==
    (CASE detected_type \in {"Unknown", "NeedsExplicitType"} -> <<>>
       [] detected_type \in {"AtaAny", "AtaHdd", "AtaSsd"} -> AtaCommand
       [] detected_type = "Nvme" -> <<"--xall">>
       [] OTHER -> <<"--xall">>)
    \o JsonFlag(get_default_format("Basic"))

FullCommand(detected_type) ==
    (CASE detected_type \in {"Unknown", "NeedsExplicitType"} -> <<>>
       [] detected_type \in {"AtaAny", "AtaHdd", "AtaSsd"} -> AtaCommand
       [] detected_type = "Nvme" -> <<"--xall">>
       [] OTHER -> <<"--xall">>)
    \o JsonFlag(get_default_format(get_default_parser_type(detected_type)))

parse_full_data(run, parser_type, format) ==
    LET d1 == clear_parse_results(run.dev)
    IN  IF parse_ok(parser_type, format, d1.full_output)
        THEN LET repo == parsed_repository(parser_type, d1.full_output)
                 d2 == [d1 EXCEPT !.parse_status =
                           IF parser_type = "Basic" THEN "Basic" ELSE "Full"]
                 d3 == detect_drive_type_from_properties(d2, repo)
                 d4 == [d3 EXCEPT !.property_repository = repo]
                 d5 == read_common_properties(d4)
             IN  Return(Emit(Logged([run EXCEPT !.dev = d5], <<d1, d2>>)), "ok")
        ELSE Return(Logged([run EXCEPT !.dev = d1], <<d1>>), "ParseError")

fetch_full_data_and_parse(run, smartctl_ex) ==
    IF run.dev.test_is_active
    THEN {Return(run, "TestRunning")}
    ELSE LET cleared ==
                 LET d1 == clear_parse_results(run.dev)
                 IN  Logged([run EXCEPT !.dev = clear_outputs(d1)], <<d1>>)
             parser_type == get_default_parser_type(cleared.dev.detected_type)
             parser_format == get_default_format(parser_type)
         IN  { LET ex == execute_device_smartctl(
                             cleared, FullCommand(cleared.dev.detected_type),
                             resp, NoOutput, FALSE)
               IN  IF ex.status # "ok"
                   THEN Return(ex.run, ex.status)
                   ELSE parse_full_data(
                            [ex.run EXCEPT !.dev.full_output = ex.output],
                            parser_type, parser_format)
               : resp \in smartctl_ex}

\* Mutant: the specialized parser's verdict is not looked at.
MutantSpecializedUnchecked(parser_type, format, out) == parser_type # "Basic"

\* A parser other than the basic one exists for the type and accepts the
\* output.
specialized_parse_ok(parser_type, format, out) ==
    /\ parser_type # "Basic"
    /\ parse_ok(parser_type, format, out)

parse_any_data_for_virtual(run) ==
    LET d1 == clear_parse_results(run.dev)
        parser_format == detect_output_format(d1.full_output)
    IN  IF parser_format = "none"
        THEN Return(Logged([run EXCEPT !.dev = d1], <<d1>>), "ParseError")
        ELSE IF ~parse_ok("Basic", parser_format, d1.full_output)
        THEN Return(Logged([run EXCEPT !.dev = d1], <<d1>>), "ParseError")
        ELSE LET basic_property_repo ==
                     parsed_repository("Basic", d1.full_output)
                 d2 == detect_drive_type_from_properties(d1, basic_property_repo)
                 d3 == [d2 EXCEPT !.property_repository = basic_property_repo]
                 d4 == read_common_properties(d3)
                 parser_type == get_default_parser_type(d4.detected_type)
                 specialized == specialized_parse_ok(parser_type, parser_format,
                                                     d4.full_output)
                 d5 == IF specialized
                       THEN [d4 EXCEPT
                               !.parse_status = "Full",
                               !.property_repository =
                                   parsed_repository(parser_type, d4.full_output)]
                       ELSE d4
                 d6 == IF d5.parse_status # "Full"
                       THEN [d5 EXCEPT
                               !.parse_status = "Basic",
                               !.property_repository = basic_property_repo]
                       ELSE d5
                 writes == <<d1>> \o (IF specialized THEN <<d5>> ELSE <<>>)
                                \o (IF d5.parse_status # "Full" THEN <<d6>> ELSE <<>>)
             IN  Return(Emit(Logged([run EXCEPT !.dev = d6], writes)), "ok")

ToggleCommand(b) ==
    IF b THEN <<"--smart=on", "--saveauto=on">> ELSE <<"--smart=off">>

\* Mutant: a response that reports no failure counts as success.
MutantToggleTrustsExit(output) ==
    IF app_regex_partial_match(PatFailed, output.text)
    THEN "CommandFailed"
    ELSE "ok"

\* The verdict on the response text of a clean execution.
classify_toggle_output(output) ==
    IF \/ app_regex_partial_match(PatEnabled, output.text)
       \/ app_regex_partial_match(PatDisabled, output.text)
    THEN "ok"
    ELSE IF app_regex_partial_match(PatFailed, output.text)
         THEN "CommandFailed"
         ELSE "CommandUnknownError"

\* Mutant: the Test-Active check is missing.
MutantToggleUnguarded(run, b, smartctl_ex) ==
    { LET ex == execute_device_smartctl(run, ToggleCommand(b), resp,
                                        NoOutput, FALSE)
      IN  IF ex.status # "ok"
          THEN Return(ex.run, ex.status)
          ELSE Return(ex.run, classify_toggle_output(ex.output))
      : resp \in smartctl_ex}

set_smart_enabled(run, b, smartctl_ex) ==
    IF run.dev.test_is_active
    THEN {Return(run, "TestRunning")}
    ELSE { LET ex == execute_device_smartctl(run, ToggleCommand(b), resp,
                                             NoOutput, FALSE)
               output == ex.output
           IN  IF ex.status # "ok"
               THEN Return(ex.run, ex.status)
               ELSE Return(ex.run, classify_toggle_output(output))
           : resp \in smartctl_ex}

\* Mutant: a change of the flag drops the cached health property.
MutantSetTestInvalidates(run, b) ==
    LET changed == (run.dev.test_is_active # b)
        set == [run EXCEPT !.dev.test_is_active = b]
    IN  IF changed
        THEN Emit([set EXCEPT !.dev.health_property_ = "none"])
        ELSE set

\* Mutant: every call notifies, whether or not the flag changes.
MutantSetTestAlwaysEmits(run, b) ==
    Emit([run EXCEPT !.dev.test_is_active = b])

set_test_is_active(run, b) ==
    LET changed == (run.dev.test_is_active # b)
        set == [run EXCEPT !.dev.test_is_active = b]
    IN  IF changed THEN Emit(set) ELSE set

\* The cached identity facts as the accessors return them: the empty string
\* for a value that is not set.
get_device_size_str(d) == IF d.size_ # "none" THEN d.size_ ELSE ""

get_model_name(d) == IF d.model_name_ # "none" THEN d.model_name_ ELSE ""

get_family_name(d) == IF d.family_name_ # "none" THEN d.family_name_ ELSE ""

get_serial_number(d) ==
    IF d.serial_number_ # "none" THEN d.serial_number_ ELSE ""

\* The cache is filled on a miss that finds the property.
get_health_property(run) ==
    IF run.dev.health_property_ # "none"
    THEN Return(run, run.dev.health_property_)
    ELSE LET p == lookup_health(run.dev)
         IN  Return(IF p # "none"
                    THEN [run EXCEPT !.dev.health_property_ = p]
                    ELSE run,
                    p)

(***************************************************************************)
(* The state machine.                                                      *)
(***************************************************************************)
\* Default output format per parser type, as smartctl versions set it.
AllJson == [t \in ParserTypes |-> "Json"]
NvmeJson == [t \in ParserTypes |-> IF t = "Nvme" THEN "Json" ELSE "Text"]

\* Build and installed smartctl.
Envs ==
    {[kernel_linux |-> TRUE, default_format |-> NvmeJson,
      config_options |-> <<>>],
     [kernel_linux |-> FALSE, default_format |-> AllJson,
      config_options |-> <<>>]}

\* Member defaults and the two constructors.
NewDevice(device, type_arg, is_virtual) ==
    [is_virtual |-> is_virtual,
     device |-> IF is_virtual THEN <<>> ELSE device,
     type_arg |-> type_arg,
     extra_args |-> <<>>,
     detected_type |-> "Unknown",
     test_is_active |-> FALSE,
     parse_status |-> "None",
     basic_output |-> NoOutput,
     full_output |-> NoOutput,
     property_repository |-> EmptyRepo,
     smart_supported_ |-> "none",
     smart_enabled_ |-> "none",
     model_name_ |-> "none",
     family_name_ |-> "none",
     serial_number_ |-> "none",
     size_ |-> "none",
     health_property_ |-> "none"]

NewDevices ==
    {NewDevice(DevSda, "", FALSE), NewDevice(DevSr0, "", FALSE),
     NewDevice(DevSda, "sat", FALSE), NewDevice(<<>>, "", TRUE)}

\* Saved smartctl output loaded into the full-output buffer.
ReplayOutputs ==
    {NoOutput, UndetectedOutput, BasicOnlyOutput}
        \cup {DataOutput(f) : f \in {BaseFacts, NvmeJsonFacts, ScsiJsonFacts}}

\* Nobody is inside a call.
TaskIds == {1, 2}

\* The locals of a call: the command options, the parser chosen, and the
\* output the parser holds the properties of.  changed remembers whether
\* the call has changed the device so far.
IdleTask == [pc |-> "idle", command_options |-> <<>>, parser_type |-> "Basic",
             parser_format |-> "Text", output |-> NoOutput, changed |-> FALSE]

NoTasks == [t \in TaskIds |-> IdleTask]

Init ==
    /\ env \in Envs
    /\ dev \in NewDevices
    /\ op = "init"
    /\ result = "ok"
    /\ exec_log = <<>>
    /\ signals = 0
    /\ retries = 0
    /\ arg = "none"
    /\ seen = <<>>
    /\ status_trace = <<>>
    /\ tasks = NoTasks

\* The operation named name ran to the end run.
Commit(name, run) ==
    /\ dev' = run.dev
    /\ op' = name
    /\ result' = run.result
    /\ exec_log' = run.exec_log
    /\ signals' = run.signals
    /\ retries' = run.retries
    /\ arg' = run.arg
    /\ seen' = run.seen
    /\ status_trace' = run.status_trace
    /\ UNCHANGED <<env, tasks>>

FetchBasic(smartctl_ex) ==
    \E run \in fetch_basic_data_and_parse(Start(dev), smartctl_ex, MaxRecursion) :
        Commit("fetch_basic_data_and_parse", run)

FetchFull(smartctl_ex) ==
    \E run \in fetch_full_data_and_parse(Start(dev), smartctl_ex) :
        Commit("fetch_full_data_and_parse", run)

\* Callers load saved output into virtual devices only, and parse it there.
SetFullOutput ==
    /\ dev.is_virtual
    /\ \E s \in ReplayOutputs :
           Commit("set_full_output", [Start(dev) EXCEPT !.dev.full_output = s])

ParseAnyDataForVirtual ==
    /\ dev.is_virtual
    /\ Commit("parse_any_data_for_virtual",
              parse_any_data_for_virtual(Start(dev)))

SetSmartEnabled(smartctl_ex) ==
    \E b \in BOOLEAN :
        \E run \in set_smart_enabled(Start(dev), b, smartctl_ex) :
            Commit("set_smart_enabled", run)

\* The self-test code runs its commands through the device directly.
ExecuteDeviceSmartctl ==
    \E check_type \in BOOLEAN, resp \in DirectResponses :
        LET ex == execute_device_smartctl(Start(dev), <<"--test=short">>, resp,
                                          NoOutput, check_type)
        IN  Commit("execute_device_smartctl", Return(ex.run, ex.status))

SetTestIsActive ==
    \E b \in BOOLEAN :
        Commit("set_test_is_active",
               set_test_is_active([Start(dev) EXCEPT !.arg = b], b))

GetHealthProperty ==
    Commit("get_health_property", get_health_property(Start(dev)))

GetSmartStatus ==
    Commit("get_smart_status", Return(Start(dev), get_smart_status(dev)))

GetSelfTestSupportStatus ==
    Commit("get_self_test_support_status",
           Return(Start(dev), get_self_test_support_status(dev)))

\* The fetch pipeline on every kind of output.
Next ==
    \/ FetchBasic(FetchResponses)
    \/ FetchFull(FetchResponses)
    \/ SetFullOutput
    \/ ParseAnyDataForVirtual
    \/ SetSmartEnabled(FewToggleResponses)
    \/ ExecuteDeviceSmartctl
    \/ SetTestIsActive
    \/ GetHealthProperty

Spec == Init /\ [][Next]_vars

\* The SMART status and the self-test support on every supported/enabled
\* combination, at every Parse Status.
NextSmart ==
    \/ FetchBasic(SmartResponses)
    \/ FetchFull(SelfTestResponses)
    \/ SetTestIsActive
    \/ GetSmartStatus
    \/ GetSelfTestSupportStatus

SpecSmart == Init /\ [][NextSmart]_vars

\* The SMART toggle on every response text.
NextToggle ==
    \/ FetchBasic(SwitchResponses)
    \/ SetSmartEnabled(ToggleResponses)
    \/ SetTestIsActive
    \/ GetSmartStatus

SpecToggle == Init /\ [][NextToggle]_vars

(***************************************************************************)
(* The type resolver on its own: every stored type name, device type,      *)
(* protocol and rotation rate, on a device of every detected type.         *)
(***************************************************************************)
ResolverTextTypes == {"none", "AtaAny", "AtaHdd", "Nvme", "Bogus"}

ResolverDeviceTypes == {"none", "scsi", "sat", "nvme", "sntrealtek"}

ResolverProtocols == {"none", "ATA", "NVMe", "SCSI"}

ResolverRotations == {NoRotation, 0, 7200}

ResolverRepos ==
    {[EmptyRepo EXCEPT !.text_type = t, !.device_type = dt, !.protocol = p,
                       !.rotation_rate = r] :
        t \in ResolverTextTypes, dt \in ResolverDeviceTypes,
        p \in ResolverProtocols, r \in ResolverRotations}

TypedDevices ==
    {[NewDevice(device, "", FALSE) EXCEPT !.detected_type = t] :
        device \in Devices, t \in DetectedTypes}

InitResolver ==
    /\ env \in Envs
    /\ dev \in TypedDevices
    /\ op = "init"
    /\ result = "ok"
    /\ exec_log = <<>>
    /\ signals = 0
    /\ retries = 0
    /\ arg = "none"
    /\ seen = <<>>
    /\ status_trace = <<>>
    /\ tasks = NoTasks

\* arg: the store looked at and the type each of the two rules left.
DetectDriveTypeFromProperties ==
    \E repo \in ResolverRepos :
        LET after_text == detect_from_text_fact(dev, repo)
            after_device_type == detect_from_device_type(after_text, repo)
        IN  Commit("detect_drive_type_from_properties",
                   [Start(detect_drive_type_from_properties(dev, repo))
                        EXCEPT !.arg =
                            [repo |-> repo,
                             after_text |-> after_text.detected_type,
                             after_device_type |->
                                 after_device_type.detected_type]])

NextResolver == DetectDriveTypeFromProperties

SpecResolver == InitResolver /\ [][NextResolver]_vars

(***************************************************************************)
(* The commands: a device of every classification, with and without an     *)
(* override, extra arguments and options in the preferences.               *)
(***************************************************************************)
ExtraArguments == {<<>>, <<"-T", "permissive">>}

ConfigOptions == {<<>>, <<"-d", "usbjmicron">>}

CommandEnvs ==
    {[e EXCEPT !.config_options = c] : e \in Envs, c \in ConfigOptions}

CommandDevices ==
    {[NewDevice(DevSda, type_arg, is_virtual)
          EXCEPT !.detected_type = t, !.extra_args = e] :
        type_arg \in {"", "sat"}, is_virtual \in BOOLEAN,
        t \in TerminalTypes \cup {"Unknown"}, e \in ExtraArguments}

CommandResponses ==
    DirectResponses \cup {[ok |-> TRUE, out |-> DataOutput(BaseFacts)]}

InitCommand ==
    /\ env \in CommandEnvs
    /\ dev \in CommandDevices
    /\ op = "init"
    /\ result = "ok"
    /\ exec_log = <<>>
    /\ signals = 0
    /\ retries = 0
    /\ arg = "none"
    /\ seen = <<>>
    /\ status_trace = <<>>
    /\ tasks = NoTasks

GetDeviceOptions ==
    Commit("get_device_options", Return(Start(dev), get_device_options(dev)))

SetExtraArguments ==
    \E args \in ExtraArguments :
        Commit("set_extra_arguments",
               [Start(set_extra_arguments(dev, args)) EXCEPT !.arg = args])

NextCommand ==
    \/ FetchBasic(CommandResponses)
    \/ FetchFull(CommandResponses)
    \/ GetDeviceOptions
    \/ SetExtraArguments

SpecCommand == InitCommand /\ [][NextCommand]_vars

(***************************************************************************)
(* Two tasks calling the fetches of one device.  Nothing in StorageDevice  *)
(* locks, so a call is a sequence of steps between which the other task    *)
(* runs: up to the executor call, the executor's return, and the parse in  *)
(* the order of its writes.  op is the call the last step belongs to, arg  *)
(* the task, result "running" until the call returns, exec_log the         *)
(* execution of the step and seen the device the listeners of the step     *)
(* found; retries and status_trace are not kept.                           *)
(***************************************************************************)
Running == "running"

TaskResponses ==
    {[ok |-> TRUE, out |-> DataOutput(BaseFacts)],
     [ok |-> FALSE, out |-> DiagOutput]}

InitTasks ==
    /\ env \in Envs
    /\ dev = NewDevice(DevSda, "", FALSE)
    /\ op = "init"
    /\ result = "ok"
    /\ exec_log = <<>>
    /\ signals = 0
    /\ retries = 0
    /\ arg = "none"
    /\ seen = <<>>
    /\ status_trace = <<>>
    /\ tasks = NoTasks

InFlight(t) == tasks[t].pc # "idle"

\* The override, the type, the parse status, the raw outputs and the store.
Kept(d) ==
    <<d.type_arg, d.detected_type, d.parse_status, d.basic_output,
      d.full_output, d.property_repository>>

TaskStep(name, t, d, value, log, emitted, task) ==
    /\ dev' = d
    /\ op' = name
    /\ result' = value
    /\ exec_log' = log
    /\ signals' = IF emitted THEN 1 ELSE 0
    /\ seen' = IF emitted THEN <<d>> ELSE <<>>
    /\ retries' = 0
    /\ arg' = t
    /\ status_trace' = <<>>
    /\ tasks' = [tasks EXCEPT ![t] =
                    IF task.pc = "idle" THEN task
                    ELSE [task EXCEPT !.changed =
                             tasks[t].changed \/ Kept(d) # Kept(dev)]]
    /\ UNCHANGED env

\* fetch_basic_data_and_parse up to the executor call.
CallFetchBasic(t) ==
    /\ tasks[t].pc = "idle"
    /\ IF dev.test_is_active
       THEN TaskStep("fetch_basic_data_and_parse", t, dev, "TestRunning",
                     <<>>, FALSE, IdleTask)
       ELSE TaskStep("fetch_basic_data_and_parse", t,
                     clear_outputs(clear_parse_results(dev)), Running,
                     <<>>, FALSE,
                     [IdleTask EXCEPT !.pc = "basic_execute",
                                      !.command_options = BasicCommand])

\* The executor returns into basic_output_; the retry test; on a retry the
\* call starts over.
BasicExecuted(t) ==
    /\ tasks[t].pc = "basic_execute"
    /\ \E resp \in TaskResponses :
           LET ex == execute_device_smartctl(
                         Start(dev), tasks[t].command_options, resp,
                         dev.basic_output, TRUE)
               after == [ex.run.dev EXCEPT !.basic_output = ex.output]
           IN  IF retry_applies(ex.status, after)
               THEN LET again == retry_with_scsi(after)
                    IN  IF again.test_is_active
                        THEN TaskStep("fetch_basic_data_and_parse", t, again,
                                      "TestRunning", ex.run.exec_log, FALSE,
                                      IdleTask)
                        ELSE TaskStep("fetch_basic_data_and_parse", t,
                                      clear_outputs(clear_parse_results(again)),
                                      Running, ex.run.exec_log, FALSE,
                                      tasks[t])
               ELSE TaskStep("fetch_basic_data_and_parse", t, after, Running,
                             ex.run.exec_log, FALSE,
                             [tasks[t] EXCEPT !.pc = "basic_parse"])

\* parse_basic_data up to the parser's verdict.
ParseBasicBegins(t) ==
    /\ tasks[t].pc = "basic_parse"
    /\ LET d1 == clear_parse_results(dev)
           detect_status == detect_output_format(d1.basic_output)
           output_format == IF detect_status # "none" THEN detect_status
                            ELSE "Text"
       IN  IF ~parse_ok("Basic", output_format, d1.basic_output)
           THEN TaskStep("fetch_basic_data_and_parse", t, d1, "ParseError",
                         <<>>, FALSE, IdleTask)
           ELSE TaskStep("fetch_basic_data_and_parse", t, d1, Running,
                         <<>>, FALSE,
                         [tasks[t] EXCEPT !.pc = "basic_store",
                                          !.output = d1.basic_output])

\* parse_basic_data from the type detection to the notification.
ParseBasicEnds(t) ==
    /\ tasks[t].pc = "basic_store"
    /\ LET basic_property_repo == parsed_repository("Basic", tasks[t].output)
           d2 == detect_drive_type_from_properties(dev, basic_property_repo)
           d3 == [d2 EXCEPT !.property_repository = basic_property_repo]
           d4 == read_common_properties(d3)
           d5 == [d4 EXCEPT !.parse_status = basic_parse_status(d4)]
       IN  TaskStep("fetch_basic_data_and_parse", t, d5, "ok", <<>>, TRUE,
                    IdleTask)

\* fetch_full_data_and_parse up to the executor call.
CallFetchFull(t) ==
    /\ tasks[t].pc = "idle"
    /\ IF dev.test_is_active
       THEN TaskStep("fetch_full_data_and_parse", t, dev, "TestRunning",
                     <<>>, FALSE, IdleTask)
       ELSE LET cleared == clear_outputs(clear_parse_results(dev))
                parser_type == get_default_parser_type(cleared.detected_type)
            IN  TaskStep("fetch_full_data_and_parse", t, cleared, Running,
                         <<>>, FALSE,
                         [IdleTask EXCEPT
                             !.pc = "full_execute",
                             !.command_options =
                                 FullCommand(cleared.detected_type),
                             !.parser_type = parser_type,
                             !.parser_format = get_default_format(parser_type)])

\* The executor returns into the local output, copied to full_output_ on
\* success.
FullExecuted(t) ==
    /\ tasks[t].pc = "full_execute"
    /\ \E resp \in TaskResponses :
           LET ex == execute_device_smartctl(
                         Start(dev), tasks[t].command_options, resp,
                         NoOutput, FALSE)
           IN  IF ex.status # "ok"
               THEN TaskStep("fetch_full_data_and_parse", t, ex.run.dev,
                             ex.status, ex.run.exec_log, FALSE, IdleTask)
               ELSE TaskStep("fetch_full_data_and_parse", t,
                             [ex.run.dev EXCEPT !.full_output = ex.output],
                             Running, ex.run.exec_log, FALSE,
                             [tasks[t] EXCEPT !.pc = "full_parse"])

\* parse_full_data up to set_parse_status.
ParseFullBegins(t) ==
    /\ tasks[t].pc = "full_parse"
    /\ LET d1 == clear_parse_results(dev)
       IN  IF parse_ok(tasks[t].parser_type, tasks[t].parser_format,
                       d1.full_output)
           THEN TaskStep("fetch_full_data_and_parse", t,
                         [d1 EXCEPT !.parse_status =
                             IF tasks[t].parser_type = "Basic" THEN "Basic"
                             ELSE "Full"],
                         Running, <<>>, FALSE,
                         [tasks[t] EXCEPT !.pc = "full_store",
                                          !.output = d1.full_output])
           ELSE TaskStep("fetch_full_data_and_parse", t, d1, "ParseError",
                         <<>>, FALSE, IdleTask)

\* parse_full_data: the type detection and set_property_repository.
ParseFullStores(t) ==
    /\ tasks[t].pc = "full_store"
    /\ LET repo == parsed_repository(tasks[t].parser_type, tasks[t].output)
           d3 == detect_drive_type_from_properties(dev, repo)
       IN  TaskStep("fetch_full_data_and_parse", t,
                    [d3 EXCEPT !.property_repository = repo], Running,
                    <<>>, FALSE, [tasks[t] EXCEPT !.pc = "full_common"])

\* parse_full_data: read_common_properties and the notification.
ParseFullEnds(t) ==
    /\ tasks[t].pc = "full_common"
    /\ TaskStep("fetch_full_data_and_parse", t, read_common_properties(dev),
                "ok", <<>>, TRUE, IdleTask)

NextTasks ==
    \/ \E t \in TaskIds : CallFetchBasic(t)
    \/ \E t \in TaskIds : BasicExecuted(t)
    \/ \E t \in TaskIds : ParseBasicBegins(t)
    \/ \E t \in TaskIds : ParseBasicEnds(t)
    \/ \E t \in TaskIds : CallFetchFull(t)
    \/ \E t \in TaskIds : FullExecuted(t)
    \/ \E t \in TaskIds : ParseFullBegins(t)
    \/ \E t \in TaskIds : ParseFullStores(t)
    \/ \E t \in TaskIds : ParseFullEnds(t)
    \/ SetTestIsActive

SpecTasks == InitTasks /\ [][NextTasks]_vars

(***************************************************************************)
(* Properties.                                                             *)
(***************************************************************************)
FetchBasicOp == "fetch_basic_data_and_parse"
FetchFullOp == "fetch_full_data_and_parse"
ToggleOp == "set_smart_enabled"

\* An executor invocation that failed with the "specify device type"
\* diagnostic in its output.
FailedWithDiag(e) == ~e.ok /\ \E i \in 1..Len(e.out.text) : e.out.text[i].phrase = PhraseType

AllFailedWithDiag(log) == \A i \in 1..Len(log) : FailedWithDiag(log[i])

\* C1: while Test-Active is true, a call of fetch_basic_data_and_parse,
\* fetch_full_data_and_parse or set_smart_enabled returns TestRunning and
\* invokes the executor not once.
C1_TestActiveGuard ==
    [][(dev.test_is_active /\ op' \in {FetchBasicOp, FetchFullOp, ToggleOp})
          => (result' = "TestRunning" /\ exec_log' = <<>>)]_vars

\* C1 witness: each guarded entry point was rejected on a device holding data
\* of an earlier fetch.
C1_Witness ==
    /\ op = ToggleOp
    /\ dev.test_is_active
    /\ result = "TestRunning"
    /\ dev.parse_status = "Basic"

\* C2 as stated: for a non-virtual device whose every execution fails with
\* the "specify device type" diagnostic, each fetch_basic_data_and_parse
\* invocation retries exactly once and returns with the override "scsi".
C2_Original ==
    (/\ op = FetchBasicOp
     /\ ~dev.is_virtual
     /\ exec_log # <<>>
     /\ AllFailedWithDiag(exec_log))
        => (retries = 1 /\ dev.type_arg = "scsi")

\* C2 amended: for such a device the retry fires at most once per invocation
\* and the call never recurses further; it fires exactly when, on entry, the
\* override is empty and Detected Type is Unknown or NeedsExplicitType, and
\* then the override is "scsi" on return; otherwise the override keeps the
\* value it had.
C2_SingleRetry ==
    [][(/\ op' = FetchBasicOp
        /\ ~dev.is_virtual
        /\ exec_log' # <<>>
        /\ AllFailedWithDiag(exec_log'))
          => (/\ retries' <= 1
              /\ result' # "Diverged"
              /\ Len(exec_log') = retries' + 1
              /\ (retries' = 1) <=>
                    (dev.type_arg = "" /\ dev.detected_type \in TransientTypes)
              /\ dev'.type_arg = (IF retries' = 1 THEN "scsi" ELSE dev.type_arg))]_vars

\* C2 witness: one retry, both executions failing with the diagnostic.
C2_Witness ==
    /\ op = FetchBasicOp
    /\ retries = 1
    /\ Len(exec_log) = 2
    /\ AllFailedWithDiag(exec_log)
    /\ dev.type_arg = "scsi"

EntryPoints == {FetchBasicOp, FetchFullOp, ToggleOp, "execute_device_smartctl"}

\* C3: on a virtual device (no test running) every fetch/execute entry point
\* returns CannotExecuteOnVirtual and never invokes the executor.
C3_VirtualRejected ==
    (dev.is_virtual /\ ~dev.test_is_active /\ op \in EntryPoints)
        => (result = "CannotExecuteOnVirtual" /\ exec_log = <<>>)

\* C4: a fetch_basic_data_and_parse whose last execution failed, the retry
\* not or no longer applying, returns ExecutionError.
C4_ExecutionErrorPropagated ==
    (/\ op = FetchBasicOp
     /\ exec_log # <<>>
     /\ ~exec_log[Len(exec_log)].ok)
        => result = "ExecutionError"

ParseOps == {FetchBasicOp, FetchFullOp, "parse_any_data_for_virtual"}

\* The derived-signal caches of a device.
Caches(d) == <<d.smart_supported_, d.smart_enabled_, d.health_property_>>

SmartTable ==
    [enabled \in Tri |->
        [supported \in Tri |->
            CASE enabled = "true" -> "Enabled"
              [] enabled = "false" /\ supported \in {"true", "none"} -> "Disabled"
              [] enabled = "false" /\ supported = "false" -> "Unsupported"
              [] enabled = "none" /\ supported = "true" -> "Disabled"
              [] enabled = "none" /\ supported \in {"false", "none"} -> "Unsupported"]]

\* C6: get_smart_status returns the table's entry for each of the nine
\* combinations of smart_enabled and smart_supported.
C6_SmartStatusTable ==
    op = "get_smart_status"
        => result = SmartTable[dev.smart_enabled_][dev.smart_supported_]

\* C6 witness: the optimistic entry, enabled unknown and supported true.
C6_Witness ==
    /\ op = "get_smart_status"
    /\ dev.smart_enabled_ = "none"
    /\ dev.smart_supported_ = "true"
    /\ result = "Disabled"

\* C7: the derived signals are computed from the current Fact Store alone: a
\* health cache that holds a value holds the store's health property, the
\* cached SMART flags are the store's, and get_health_property returns the
\* store's health property.
C7_CachesFollowStore ==
    /\ dev.health_property_ # "none" => dev.health_property_ = lookup_health(dev)
    /\ dev.smart_supported_ = dev.property_repository.smart_supported
    /\ dev.smart_enabled_ = dev.property_repository.smart_enabled
    /\ op = "get_health_property" => result = lookup_health(dev)

\* C7 witness: the health verdict of a later fetch is the one returned.
C7_Witness ==
    /\ op = "get_health_property"
    /\ result = "failed"
    /\ dev.serial_number_ = "S2"
    /\ dev.parse_status = "Full"

\* Both logs hold one and the same executor response throughout.
SameResponse(log1, log2) ==
    \A e1, e2 \in {log1[i] : i \in 1..Len(log1)} \cup {log2[i] : i \in 1..Len(log2)} :
        e1.ok = e2.ok /\ e1.out = e2.out

\* C8: the ambiguous-type retry does not fire in a basic fetch entered with a
\* non-empty override or a terminal Detected Type; when it fires the override
\* was empty and the Detected Type was NeedsExplicitType at the test, held on
\* entry or set by the failed execution just before; and a second basic fetch
\* that gets the same executor output as the first leaves a terminal
\* Detected Type as the first left it.
C8_BasicFetchIdempotent ==
    [][/\ (op' = FetchBasicOp
           /\ (dev.type_arg # "" \/ dev.detected_type \in TerminalTypes))
          => retries' = 0
       /\ (op' = FetchBasicOp /\ retries' > 0)
          => (/\ dev.type_arg = ""
              /\ \/ dev.detected_type = "NeedsExplicitType"
                 \/ /\ dev.detected_type = "Unknown"
                    /\ FailedWithDiag(exec_log'[1]))
       /\ (/\ op = FetchBasicOp
           /\ op' = FetchBasicOp
           /\ dev.detected_type \in TerminalTypes
           /\ SameResponse(exec_log, exec_log'))
          => dev'.detected_type = dev.detected_type]_vars

\* C8 witness: a basic fetch on a classified device with the override set,
\* whose execution failed with the diagnostic and did not retry.
C8_Witness ==
    /\ op = FetchBasicOp
    /\ dev.detected_type \in TerminalTypes
    /\ dev.type_arg = "scsi"
    /\ Len(exec_log) = 1
    /\ FailedWithDiag(exec_log[1])
    /\ retries = 0
    /\ result = "ok"

\* Some line of the text starts with the phrase.
LineStartsWith(text, phrase) ==
    \E i \in 1..Len(text) : text[i] = [lead |-> FALSE, phrase |-> phrase]

\* C9: after a clean execution set_smart_enabled returns success when a line
\* starts with "SMART Enabled" or "SMART Disabled", otherwise CommandFailed
\* when a line starts with "A mandatory SMART command failed", otherwise
\* CommandUnknownError.
C9_ToggleClassification ==
    (op = ToggleOp /\ exec_log # <<>> /\ exec_log[1].ok)
        => LET text == exec_log[1].out.text
           IN  result =
                 IF \/ LineStartsWith(text, PhraseEnabled)
                    \/ LineStartsWith(text, PhraseDisabled)
                 THEN "ok"
                 ELSE IF LineStartsWith(text, PhraseFailed)
                      THEN "CommandFailed"
                      ELSE "CommandUnknownError"

\* C9 witness: a clean exit whose text mentions "SMART Enabled" inside a
\* sentence only is not a success.
C9_Witness ==
    /\ op = ToggleOp
    /\ Len(exec_log) = 1
    /\ exec_log[1].ok
    /\ exec_log[1].out.text = <<[lead |-> TRUE, phrase |-> PhraseEnabled]>>
    /\ result = "CommandUnknownError"

\* C10: set_smart_enabled emits no change notification and leaves the device
\* as it was, whatever it returns: Detected Type, override, Parse Status, raw
\* outputs, Fact Store and cached values, and with them the reported SMART
\* status.
C10_ToggleFrame ==
    [][op' = ToggleOp
          => (/\ signals' = 0
              /\ dev' = dev
              /\ get_smart_status(dev') = get_smart_status(dev))]_vars

\* C10 witness: SMART was switched on with success and the device still
\* reports Disabled.
C10_Witness ==
    /\ op = ToggleOp
    /\ result = "ok"
    /\ exec_log[1].command = ToggleCommand(TRUE)
    /\ dev.smart_enabled_ = "false"
    /\ get_smart_status(dev) = "Disabled"

SetTestOp == "set_test_is_active"

\* C11: set_test_is_active(b) emits one change notification when b differs
\* from the Test-Active flag and none when it equals it, and the flag is b
\* afterwards (and is b already when the listeners run).
C11_TestActiveNotification ==
    [][op' = SetTestOp
          => (/\ arg' \in BOOLEAN
              /\ dev'.test_is_active = arg'
              /\ signals' = (IF arg' # dev.test_is_active THEN 1 ELSE 0)
              /\ \A i \in 1..Len(seen') : seen'[i].test_is_active = arg')]_vars

\* C11 witness: a redundant set on a device under test, told to nobody.
C11_Witness ==
    /\ op = SetTestOp
    /\ arg = TRUE
    /\ dev.test_is_active
    /\ signals = 0

\* C12 as stated: right after a set_test_is_active call that changes the flag
\* the health cache is empty.
C12_Original ==
    [][(op' = SetTestOp /\ dev'.test_is_active # dev.test_is_active)
          => dev'.health_property_ = "none"]_vars

\* C12: set_test_is_active changes nothing but the flag, so the health cache
\* and every other cached signal survive a change of the flag; a health cache
\* that holds a value loses or changes it only in a fetch or parse operation.
C12_TestActiveKeepsCaches ==
    [][/\ op' = SetTestOp
          => dev' = [dev EXCEPT !.test_is_active = arg']
       /\ (dev.health_property_ # "none"
           /\ dev'.health_property_ # dev.health_property_)
          => op' \in ParseOps]_vars

\* C12 witness: the flag was changed on a device whose health cache is filled.
C12_Witness ==
    /\ op = SetTestOp
    /\ signals = 1
    /\ dev.test_is_active
    /\ dev.health_property_ = "passed"

FetchOps == {FetchBasicOp, FetchFullOp}

\* C13: an invocation of fetch_basic_data_and_parse or
\* fetch_full_data_and_parse, with or without the ambiguous-type retry, emits
\* one change notification if it returns success and none if it returns an
\* error; the listeners find the Fact Store, the cached identity facts and
\* the Parse Status the invocation leaves behind.
C13_FetchNotifiesOnce ==
    [][op' \in FetchOps
          => (/\ signals' = (IF result' = "ok" THEN 1 ELSE 0)
              /\ Len(seen') = signals'
              /\ \A i \in 1..Len(seen') :
                    /\ seen'[i].property_repository = dev'.property_repository
                    /\ seen'[i].parse_status = dev'.parse_status
                    /\ seen'[i].model_name_ = dev'.model_name_
                    /\ seen'[i].family_name_ = dev'.family_name_
                    /\ seen'[i].serial_number_ = dev'.serial_number_
                    /\ seen'[i].size_ = dev'.size_
                    /\ seen'[i].smart_supported_ = dev'.smart_supported_
                    /\ seen'[i].smart_enabled_ = dev'.smart_enabled_)]_vars

\* C13 witness: a basic fetch that retried with "scsi" and then parsed told
\* its listeners once.
C13_Witness ==
    /\ op = FetchBasicOp
    /\ retries = 1
    /\ result = "ok"
    /\ signals = 1
    /\ seen[1].parse_status = "Basic"

VirtualOp == "parse_any_data_for_virtual"

\* C14 as stated: every invocation of parse_any_data_for_virtual emits one
\* change notification, after the final Parse Status is settled.
C14_Original ==
    [][op' = VirtualOp
          => (/\ signals' = 1
              /\ Len(seen') = 1
              /\ seen'[1].parse_status = dev'.parse_status)]_vars

\* C14: an invocation of parse_any_data_for_virtual that returns success
\* emits one change notification, and the listeners find the final Parse
\* Status and Fact Store; one that returns ParseError emits none.
C14_VirtualNotifiesOnSuccess ==
    [][op' = VirtualOp
          => (/\ result' \in {"ok", "ParseError"}
              /\ signals' = (IF result' = "ok" THEN 1 ELSE 0)
              /\ Len(seen') = signals'
              /\ \A i \in 1..Len(seen') :
                    /\ seen'[i].parse_status = dev'.parse_status
                    /\ seen'[i].property_repository = dev'.property_repository)]_vars

\* C14 witness: a replay promoted to Full told its listeners once, and they
\* found it Full.
C14_Witness ==
    /\ op = VirtualOp
    /\ result = "ok"
    /\ dev.parse_status = "Full"
    /\ signals = 1
    /\ seen[1].parse_status = "Full"

\* C15: when parse_any_data_for_virtual succeeds, Parse Status ends as Full
\* exactly if the resolved type has a parser of its own, other than the basic
\* one, and that parser accepts the buffer, and then the Fact Store is that
\* parser's; otherwise it ends as Basic and the Fact Store is the basic
\* parser's.
C15_VirtualPromotion ==
    [][(op' = VirtualOp /\ result' = "ok")
          => LET out == dev'.full_output
                 parser_type == get_default_parser_type(dev'.detected_type)
                 promoted == /\ parser_type \in {"Ata", "Nvme"}
                             /\ out.family = parser_type
             IN  /\ out = dev.full_output
                 /\ out.basic_ok
                 /\ dev'.parse_status = (IF promoted THEN "Full" ELSE "Basic")
                 /\ dev'.property_repository =
                        (IF promoted THEN out.facts ELSE BasicStore(out))]_vars

\* C15 witness: the drive resolved to an ATA type whose parser rejects the
\* buffer stays Basic, with the basic parser's store.
C15_Witness ==
    /\ op = VirtualOp
    /\ result = "ok"
    /\ dev.full_output = BasicOnlyOutput
    /\ dev.detected_type = "AtaHdd"
    /\ dev.parse_status = "Basic"
    /\ dev.property_repository = BasicStore(BasicOnlyOutput)

\* None < Basic < Full.
StatusRank(status) ==
    CASE status = "None" -> 0 [] status = "Basic" -> 1 [] status = "Full" -> 2

\* C16: every fetch or parse operation that gets past the Test-Active guard
\* first writes None to Parse Status, and each later write of the operation
\* is no lower than the one before; the operation leaves the last value
\* written.
C16_StatusMonotone ==
    [][(op' \in ParseOps /\ result' # "TestRunning")
          => (/\ status_trace' # <<>>
              /\ status_trace'[1] = "None"
              /\ \A i \in 1..(Len(status_trace') - 1) :
                    StatusRank(status_trace'[i]) <= StatusRank(status_trace'[i + 1])
              /\ dev'.parse_status = status_trace'[Len(status_trace')])]_vars

\* C16 witness: a replay wrote None and then Full.
C16_Witness ==
    /\ op = VirtualOp
    /\ status_trace = <<"None", "Full">>
    /\ dev.parse_status = "Full"
    /\ signals = 1

\* C17 as stated: a successful basic fetch leaves Parse Status Basic; a
\* successful full fetch leaves Basic when the basic parser ran and Full when
\* a family-specific parser ran.
C17_Original ==
    [][/\ (op' = FetchBasicOp /\ result' = "ok") => dev'.parse_status = "Basic"
       /\ (op' = FetchFullOp /\ result' = "ok")
          => dev'.parse_status =
                (IF get_default_parser_type(dev.detected_type) = "Basic"
                 THEN "Basic" ELSE "Full")]_vars

\* C17: a successful basic fetch leaves Parse Status Basic when the parsed
\* store names a model (model_name or its alias scsi_model_name) and None
\* when it does not; a successful full fetch leaves Basic when the basic
\* parser ran and Full when a family-specific parser ran.
C17_StatusByPhase ==
    [][/\ (op' = FetchBasicOp /\ result' = "ok")
          => dev'.parse_status =
                (IF \/ dev'.property_repository.model_name # "none"
                    \/ dev'.property_repository.scsi_model_name # "none"
                 THEN "Basic" ELSE "None")
       /\ (op' = FetchFullOp /\ result' = "ok")
          => dev'.parse_status =
                (IF get_default_parser_type(dev.detected_type) = "Basic"
                 THEN "Basic" ELSE "Full")]_vars

\* C17 witness: a basic fetch parsed output that names no model; it returned
\* success, notified, and left Parse Status None.
C17_Witness ==
    /\ op = FetchBasicOp
    /\ result = "ok"
    /\ signals = 1
    /\ dev.basic_output = DataOutput(FlashFacts)
    /\ dev.parse_status = "None"

SelfTestOp == "get_self_test_support_status"

\* C18: get_self_test_support_status returns, at Parse Status Full, Supported
\* if the Fact Store has a fact in the self-test-log section and Unsupported
\* if not; at Basic, Unknown if the SMART status is Enabled and Unsupported if
\* not; at None, Unknown.
C18_SelfTestSupport ==
    op = SelfTestOp
        => result =
             CASE dev.parse_status = "Full" ->
                    (IF dev.property_repository.selftest_log
                     THEN "Supported" ELSE "Unsupported")
               [] dev.parse_status = "Basic" ->
                    (IF SmartTable[dev.smart_enabled_][dev.smart_supported_] = "Enabled"
                     THEN "Unknown" ELSE "Unsupported")
               [] dev.parse_status = "None" -> "Unknown"

\* C18 witness: a fully parsed device without self-test log is Unsupported.
C18_Witness ==
    /\ op = SelfTestOp
    /\ dev.parse_status = "Full"
    /\ ~dev.property_repository.selftest_log
    /\ result = "Unsupported"

\* C19: after a basic fetch whose parse succeeds, Detected Type is neither
\* Unknown nor NeedsExplicitType, so that the type fetch_full_data_and_parse
\* requires on entry is there.
C19_BasicFetchClassifies ==
    (op = FetchBasicOp /\ result = "ok") => dev.detected_type \in TerminalTypes

\* C20: whatever operation runs, a Detected Type that is a terminal
\* classification is a terminal classification afterwards: it never becomes
\* Unknown or NeedsExplicitType again.
C20_TerminalStaysTerminal ==
    [][dev.detected_type \in TerminalTypes
          => dev'.detected_type \in TerminalTypes]_vars

\* C20 witness: a classified device went through a basic fetch whose
\* execution failed with the "specify device type" diagnostic and whose
\* output did not parse.
C20_Witness ==
    /\ op = FetchBasicOp
    /\ Len(exec_log) = 1
    /\ FailedWithDiag(exec_log[1])
    /\ dev.type_arg = ""
    /\ result = "ParseError"
    /\ dev.detected_type \in TerminalTypes

ResolverOp == "detect_drive_type_from_properties"

\* The optical-basename predicate.
IsOptical(d) ==
    env.kernel_linux /\ starts_with(get_device_base(d), <<"s", "r">>)

\* C21: when the text parser's "parser-detected drive type" fact is there
\* and names AtaAny, the resolver's text rule yields AtaSsd if the rotation
\* rate is absent or zero and AtaHdd if it is nonzero; a name that is no
\* detected type yields BasicScsi.  Without a device/type fact that is the
\* type the resolver ends with.
C21_TextFactRule ==
    (op = ResolverOp /\ arg.repo.text_type # "none") =>
        /\ arg.repo.text_type = "AtaAny" =>
              arg.after_text =
                  IF arg.repo.rotation_rate \in {NoRotation, 0}
                  THEN "AtaSsd" ELSE "AtaHdd"
        /\ arg.repo.text_type \notin DetectedTypes =>
              arg.after_text = "BasicScsi"
        /\ arg.repo.device_type = "none" =>
              dev.detected_type = arg.after_text

\* C21 witness: a store whose text fact names AtaAny and that has no
\* rotation rate made the device an AtaSsd.
C21_Witness ==
    /\ op = ResolverOp
    /\ arg.repo.text_type = "AtaAny"
    /\ arg.repo.rotation_rate = NoRotation
    /\ arg.repo.device_type = "none"
    /\ dev.detected_type = "AtaSsd"

\* C22: when the "device/type" fact is there, the device/type rule maps
\* "scsi" to CdDvd or BasicScsi by the optical-basename predicate, "sat" or
\* a protocol that is "ata" in any case to AtaSsd/AtaHdd by the rotation
\* rate, "nvme" by type or by protocol to Nvme, and leaves the type as it
\* found it for any other value.
C22_DeviceTypeRule ==
    (op = ResolverOp /\ arg.repo.device_type # "none") =>
        LET device_type == arg.repo.device_type
            protocol == arg.repo.protocol
        IN  arg.after_device_type =
                IF device_type = "scsi"
                THEN IF IsOptical(dev) THEN "CdDvd" ELSE "BasicScsi"
                ELSE IF device_type = "sat" \/ protocol \in {"ata", "ATA"}
                THEN IF arg.repo.rotation_rate \in {NoRotation, 0}
                     THEN "AtaSsd" ELSE "AtaHdd"
                ELSE IF device_type = "nvme" \/ protocol \in {"nvme", "NVMe"}
                THEN "Nvme"
                ELSE arg.after_text

\* C22 witness: an NVMe drive behind a USB bridge, known by its protocol
\* alone, on a device that was an AtaHdd.
C22_Witness ==
    /\ op = ResolverOp
    /\ arg.repo.text_type = "none"
    /\ arg.repo.device_type = "sntrealtek"
    /\ arg.repo.protocol = "NVMe"
    /\ arg.after_text = "AtaHdd"
    /\ dev.detected_type = "Nvme"

\* C23: the device/type rule is applied only when the text parser's fact is
\* absent: with both facts in the store the resolver ends with the type
\* the text fact gives.
C23_TextFactWins ==
    (/\ op = ResolverOp
     /\ arg.repo.text_type # "none"
     /\ arg.repo.device_type # "none") =>
        dev.detected_type = arg.after_text

ExecuteOp == "execute_device_smartctl"

\* C24: Detected Type changes only in the type resolver, which runs after a
\* parse that succeeded, and in the ambiguous-type path of the basic fetch:
\* the failed execution that asks for a device type makes an Unknown device
\* NeedsExplicitType, and the retry with "scsi" makes that BasicScsi.
\* fetch_full_data_and_parse that does not get through its parse,
\* set_smart_enabled, set_test_is_active, and any parse that fails leave it
\* as it was.
C24_TypeMutators ==
    [][dev'.detected_type # dev.detected_type
          => \/ op' \in ParseOps /\ result' = "ok"
             \/ /\ op' \in {FetchBasicOp, ExecuteOp}
                /\ retries' = 0
                /\ dev.detected_type = "Unknown"
                /\ FailedWithDiag(exec_log'[1])
                /\ dev'.detected_type = "NeedsExplicitType"
             \/ /\ op' = FetchBasicOp
                /\ retries' = 1
                /\ dev.detected_type \in TransientTypes
                /\ dev.type_arg = ""
                /\ dev'.detected_type = "BasicScsi"]_vars

\* C24 witness: a basic fetch whose two executions failed with the
\* diagnostic and whose output did not parse left the device BasicScsi.
C24_Witness ==
    /\ op = FetchBasicOp
    /\ result = "ParseError"
    /\ retries = 1
    /\ AllFailedWithDiag(exec_log)
    /\ dev.detected_type = "BasicScsi"

\* C25: over any sequence of operations on a device the interface-type
\* override changes at most once, and only from empty to "scsi" inside the
\* ambiguous-type retry of the basic fetch; an override that is not empty,
\* given at construction or set by the retry, is never changed.
C25_OverrideSetOnce ==
    [][dev'.type_arg # dev.type_arg
          => (/\ dev.type_arg = ""
              /\ dev'.type_arg = "scsi"
              /\ op' = FetchBasicOp
              /\ retries' = 1)]_vars

\* C25 witness: the retry set the override on a device constructed without
\* one, and the second attempt parsed.
C25_Witness ==
    /\ op = FetchBasicOp
    /\ retries = 1
    /\ result = "ok"
    /\ dev.type_arg = "scsi"

GetOptionsOp == "get_device_options"

\* C26: the command list of the full fetch goes by Detected Type: "--xall"
\* alone for Nvme, BasicScsi, CdDvd and UnsupportedRaid, the enumerated ATA
\* template for AtaAny, AtaHdd and AtaSsd; the one element appended to it is
\* "--json=o", and only when the default format of that type's parser is
\* JSON.
C26_FullCommandByType ==
    [][(op' = FetchFullOp /\ exec_log' # <<>>
           /\ dev.detected_type \in TerminalTypes)
          => LET t == dev.detected_type
                 parser_type ==
                     IF t \in {"AtaAny", "AtaHdd", "AtaSsd"} THEN "Ata"
                     ELSE IF t = "Nvme" THEN "Nvme" ELSE "Basic"
                 list ==
                     IF t \in {"Nvme", "BasicScsi", "CdDvd", "UnsupportedRaid"}
                     THEN <<"--xall">> ELSE AtaCommand
             IN  /\ Len(exec_log') = 1
                 /\ exec_log'[1].command =
                        IF env.default_format[parser_type] = "Json"
                        THEN Append(list, "--json=o") ELSE list]_vars

\* C26 witness: the full fetch of an UnsupportedRaid device, whose parser's
\* default format is text, ran "--xall" alone.
C26_Witness ==
    /\ op = FetchFullOp
    /\ result = "ExecutionError"
    /\ dev.detected_type = "UnsupportedRaid"
    /\ exec_log[1].command = <<"--xall">>

\* C27: get_device_options returns "-d" and the override, there if and
\* only if the override is not empty, then the caller's extra arguments in
\* their order, then the per-device options of the preferences; for a
\* virtual device it returns the empty list.  An execution passes that list.
C27_DeviceOptionsOrder ==
    LET options ==
            IF dev.is_virtual THEN <<>>
            ELSE (IF dev.type_arg # "" THEN <<"-d", dev.type_arg>> ELSE <<>>)
                 \o dev.extra_args \o env.config_options
    IN  /\ op = GetOptionsOp => result = options
        /\ op = FetchFullOp =>
              \A i \in 1..Len(exec_log) : exec_log[i].options = options

\* C27 witness: the options of a device with an override, extra arguments
\* and options in the preferences.
C27_Witness ==
    /\ op = GetOptionsOp
    /\ result = <<"-d", "sat", "-T", "permissive", "-d", "usbjmicron">>

\* C28: the fetches of one device are serialized by the device itself:
\* with two tasks calling fetch_basic_data_and_parse or
\* fetch_full_data_and_parse, the two calls are never both between entry
\* and return.
C28_FetchesSerialized == ~(InFlight(1) /\ InFlight(2))

\* C29: a reader running next to a parse never finds the device half
\* updated: at every step Parse Status, Fact Store and the cached identity
\* values belong to the same parse.  Parse Status is Full only while the
\* Fact Store is the family parser's store of the full output, and under a
\* Parse Status other than None the cached values are the store's.
C29_ConsistentSnapshot ==
    /\ dev.parse_status = "Full" =>
          dev.property_repository = parsed_repository("Ata", dev.full_output)
    /\ dev.parse_status # "None" => read_common_properties(dev) = dev

\* C30 as stated: a basic fetch clears both raw-output buffers and a full
\* fetch only the full one: fetch_full_data_and_parse leaves the basic
\* buffer as it was before the call.
C30_Original ==
    [][op' = FetchFullOp => dev'.basic_output = dev.basic_output]_vars

\* C30, amended: a fetch of either phase that gets past the Test-Active
\* guard clears both raw-output buffers at its start.  After a basic fetch
\* the full buffer is empty and the basic buffer holds what the last
\* execution printed; after a full fetch the basic buffer is empty and the
\* full buffer holds the output of the execution if it succeeded.
C30_FetchClearsBothBuffers ==
    [][(op' \in FetchOps /\ result' # "TestRunning")
          => IF op' = FetchBasicOp
             THEN /\ dev'.full_output = NoOutput
                  /\ dev'.basic_output =
                         IF exec_log' = <<>> THEN NoOutput
                         ELSE exec_log'[Len(exec_log')].out
             ELSE /\ dev'.basic_output = NoOutput
                  /\ dev'.full_output =
                         IF exec_log' # <<>> /\ exec_log'[1].ok
                         THEN exec_log'[1].out ELSE NoOutput]_vars

\* C30 witness: a full fetch of a device that a basic fetch had classified
\* parsed the family's data, and the basic buffer is empty.
C30_Witness ==
    /\ op = FetchFullOp
    /\ result = "ok"
    /\ dev.parse_status = "Full"
    /\ dev.basic_output = NoOutput
    /\ dev.full_output # NoOutput

\* C31: the full phase parses with the family parser of the Detected Type
\* in the format detected from the captured output: output the executor
\* delivered and that parser accepts in its own format is parsed, also
\* when that format is not the configured default format.
C31_FullParserByDetectedFormat ==
    [][(/\ op' = FetchFullOp
        /\ exec_log' # <<>>
        /\ exec_log'[1].ok
        /\ detect_output_format(exec_log'[1].out) # "none"
        /\ parse_ok(get_default_parser_type(dev.detected_type),
                    detect_output_format(exec_log'[1].out),
                    exec_log'[1].out))
          => result' = "ok"]_vars

\* The value a chain takes: the primary key's, else the alias key's.
Chain(primary, alias) == IF primary # "none" THEN primary ELSE alias

\* C32: read_common_properties fills each cached identity fact by a chain
\* that takes the alias key whenever the primary key is absent and the
\* alias is present: after a parse that succeeded, the model is that of
\* "model_name", else of "scsi_model_name"; the family that of
\* "model_family", else of "scsi_vendor"; the size that of
\* "user_capacity/bytes/_short", else of "user_capacity/bytes".
C32_AliasChains ==
    (op \in ParseOps /\ result = "ok") =>
        LET r == dev.property_repository
        IN  /\ dev.model_name_ = Chain(r.model_name, r.scsi_model_name)
            /\ dev.family_name_ = Chain(r.model_family, r.scsi_vendor)
            /\ dev.size_ = Chain(r.size_short, r.size_bytes)

\* A cached value is empty or the value of one of the store's keys.
FromStore(value, keys) == value = "" \/ value \in (keys \ {"none"})

\* C33: after any sequence of fetches and parses, what get_model_name,
\* get_family_name, get_serial_number and get_device_size_str return comes
\* from the current Fact Store and is empty when that store has no such
\* fact: nothing an earlier fetch extracted survives a later fetch whose
\* output lacks it.
C33_IdentityFromStore ==
    LET r == dev.property_repository
    IN  /\ FromStore(get_model_name(dev), {r.model_name, r.scsi_model_name})
        /\ FromStore(get_family_name(dev), {r.model_family, r.scsi_vendor})
        /\ FromStore(get_serial_number(dev), {r.serial_number})
        /\ FromStore(get_device_size_str(dev), {r.size_short, r.size_bytes})

\* C34: a fetch that returns TestRunning has changed nothing: override,
\* Detected Type, Parse Status, raw outputs and Fact Store are as the call
\* found them, also when another task sets the Test-Active flag while a
\* basic fetch is in flight and the ambiguous-type retry re-enters it.
C34_TestRunningChangesNothing ==
    [][(op' \in FetchOps /\ result' = "TestRunning")
          => (/\ ~tasks[arg'].changed
              /\ Kept(dev') = Kept(dev))]_vars

\* The replay data of a virtual device.
ReplayData(d) ==
    <<d.basic_output, d.full_output, d.property_repository, d.parse_status>>

\* C35: on a virtual device a fetch, which cannot execute, leaves the
\* replay data intact: the raw-output buffers, the Fact Store and the Parse
\* Status after fetch_basic_data_and_parse or fetch_full_data_and_parse are
\* those before the call.
C35_VirtualFetchKeepsReplay ==
    [][(dev.is_virtual /\ op' \in FetchOps)
          => ReplayData(dev') = ReplayData(dev)]_vars

\* C36: every fetch_basic_data_and_parse ends after at most two executor
\* invocations, that is after at most one retry, whatever the Detected
\* Type, the override and the executor's responses;
\* fetch_full_data_and_parse and set_smart_enabled invoke the executor at
\* most once.
C36_BoundedExecutions ==
    /\ op = FetchBasicOp =>
          (result # "Diverged" /\ retries <= 1 /\ Len(exec_log) <= 2)
    /\ op \in {FetchFullOp, ToggleOp} =>
          (retries = 0 /\ Len(exec_log) <= 1)

\* C36 witness: a basic fetch that retried: the first execution failed,
\* the second succeeded, and the call returned.
C36_Witness ==
    /\ op = FetchBasicOp
    /\ retries = 1
    /\ Len(exec_log) = 2
    /\ ~exec_log[1].ok
    /\ exec_log[2].ok

\* C37: when the ambiguous-type retry fires, the first executor invocation
\* of that basic fetch carries no "-d" flag from the override and the
\* second carries "-d", "scsi" as its first device options; Detected Type is
\* BasicScsi when the second invocation is made, so that the second
\* execution does not make the device NeedsExplicitType again.
C37_RetryCommands ==
    (op = FetchBasicOp /\ retries = 1) =>
        /\ Len(exec_log) = 2
        /\ exec_log[1].options = dev.extra_args \o env.config_options
        /\ exec_log[2].options =
               <<"-d", "scsi">> \o dev.extra_args \o env.config_options
        /\ exec_log[2].detected_type = "BasicScsi"
        /\ dev.detected_type # "NeedsExplicitType"

\* C37 witness: a retried basic fetch of a device with extra arguments and
\* options in the preferences, whose second execution failed like the first.
C37_Witness ==
    /\ op = FetchBasicOp
    /\ retries = 1
    /\ AllFailedWithDiag(exec_log)
    /\ exec_log[1].options = <<"-T", "permissive", "-d", "usbjmicron">>
    /\ exec_log[2].options =
           <<"-d", "scsi", "-T", "permissive", "-d", "usbjmicron">>

====
